---- MODULE Spec2Model ----
(***************************************************************************)
(* State-machine model of src/app.py, the futures alert dashboard.         *)
(*                                                                         *)
(* The script is re-run from top to bottom on every refresh ("tick").      *)
(* What survives from one run to the next is st.session_state: the price   *)
(* histories, the spread histories and the two cooldown tables.            *)
(*                                                                         *)
(* Numbers.  A finite Python float is modelled as a binary floating-point  *)
(* number <<m, e>> = m * 2^e whose significand has at most Precision bits; *)
(* every operation rounds its exact result to the nearest such number,     *)
(* ties to even, as IEEE 754 does with 53 bits.  NaN is the empty tuple,   *)
(* inf and None are tagged tuples, so that "not finite" and "absent" are   *)
(* values of their own.                                                    *)
(***************************************************************************)
EXTENDS Integers, Sequences, FiniteSets, TLC

VARIABLES
    price_hist,      \* st.session_state.price_hist : symbol -> deque
    hist_spread,     \* st.session_state.hist_spread : spread name -> deque
    last_signal_ts,  \* st.session_state.last_signal_ts : key -> time
    last_alert_ts,   \* st.session_state.last_alert_ts : key -> time
    now,             \* time.time(), in whole seconds
    ticks,           \* number of runs of the script so far
    run,             \* what the latest run read, computed and rendered
    request,         \* how the quote request of the latest run went
    emitted,         \* key -> the times of its last two prominent emissions
    spread_group,    \* spread name -> the group each stored sample was taken in
    fin,             \* argument of the function under evaluation
    fout             \* its result

vars == <<price_hist, hist_spread, last_signal_ts, last_alert_ts, now, ticks,
          run, request, emitted, spread_group, fin, fout>>

-----------------------------------------------------------------------------
(* Floats *)

NaN == <<>>

Inf == <<"inf">>

None == <<"None">>

isfinite(x) == Len(x) = 2

\* The bits of a significand (53 in a Python float)
Precision == 8

AbsInt(i) == IF i < 0 THEN -i ELSE i

\* The number of bits of a natural number
RECURSIVE BitLen(_)
BitLen(a) ==
    IF a = 0 THEN 0
    ELSE IF a >= 256 THEN 8 + BitLen(a \div 256)
    ELSE 1 + BitLen(a \div 2)

\* m * 2^e with m odd, or zero: one tuple for each number
RECURSIVE Canon(_, _)
Canon(m, e) ==
    IF m = 0 THEN <<0, 0>>
    ELSE IF m % 2 = 0 THEN Canon(m \div 2, e + 1)
    ELSE <<m, e>>

\* a * 2^e, a >= 0, with the k lowest bits of a rounded away (ties to even)
RoundPos(a, e, k) ==
    IF k <= 0 THEN <<a, e>>
    ELSE <<IF a % 2^k > 2^(k - 1) \/ (a % 2^k = 2^(k - 1) /\ (a \div 2^k) % 2 = 1)
           THEN a \div 2^k + 1 ELSE a \div 2^k,
           e + k>>

\* The number p with the sign of m
Signed(m, p) == Canon(IF m < 0 THEN -p[1] ELSE p[1], p[2])

\* The float nearest to m * 2^e
Round(m, e) == Signed(m, RoundPos(AbsInt(m), e, BitLen(AbsInt(m)) - Precision))

\* float(i) of an integer
F(i) == Round(i, 0)

FNeg(x) == <<-x[1], x[2]>>

\* x + y; an operand below a quarter of the other's last place is absorbed
FAdd(x, y) ==
    IF x[1] = 0 THEN y
    ELSE IF y[1] = 0 THEN x
    ELSE IF x[2] - y[2] > 2 * Precision + 1 THEN x
    ELSE IF y[2] - x[2] > 2 * Precision + 1 THEN y
    ELSE IF x[2] >= y[2] THEN Round(x[1] * 2^(x[2] - y[2]) + y[1], y[2])
    ELSE Round(x[1] + y[1] * 2^(y[2] - x[2]), x[2])

FSub(x, y) == FAdd(x, FNeg(y))

FMul(x, y) == Round(x[1] * y[1], x[2] + y[2])

\* The bits a is shifted by so that a * 2^s / b has Precision + 2 or more
DivShift(a, b) ==
    IF Precision + 2 + BitLen(b) - BitLen(a) < 0 THEN 0
    ELSE Precision + 2 + BitLen(b) - BitLen(a)

\* a * 2^e / b for a >= 0, b > 0: the quotient of a * 2^s by b, with a last
\* bit that is set when the division left a remainder
Quot(a, b, s, e) ==
    Round(2 * ((a * 2^s) \div b) + (IF (a * 2^s) % b = 0 THEN 0 ELSE 1), e - s - 1)

\* x / y for y # 0
FDiv(x, y) ==
    IF (x[1] < 0) = (y[1] < 0)
    THEN Quot(AbsInt(x[1]), AbsInt(y[1]), DivShift(AbsInt(x[1]), AbsInt(y[1])), x[2] - y[2])
    ELSE FNeg(Quot(AbsInt(x[1]), AbsInt(y[1]), DivShift(AbsInt(x[1]), AbsInt(y[1])), x[2] - y[2]))

\* The integer square root of M, searched in lo..hi
RECURSIVE ISqrtIn(_, _, _)
ISqrtIn(M, lo, hi) ==
    IF lo = hi THEN lo
    ELSE IF ((lo + hi + 1) \div 2) * ((lo + hi + 1) \div 2) <= M
         THEN ISqrtIn(M, (lo + hi + 1) \div 2, hi)
         ELSE ISqrtIn(M, lo, (lo + hi + 1) \div 2 - 1)

\* sqrt(M) * 2^e from r, the integer square root of M
Root(M, r, e) == Round(2 * r + (IF r * r = M THEN 0 ELSE 1), e - 1)

\* The bits m is shifted by so that the exponent left is even
SqrtShift(e) ==
    IF (e - (2 * Precision + 2)) % 2 = 0 THEN 2 * Precision + 2
    ELSE 2 * Precision + 3

\* np.sqrt(x) for x >= 0
FSqrt(x) ==
    IF x[1] = 0 THEN x
    ELSE Root(x[1] * 2^SqrtShift(x[2]),
              ISqrtIn(x[1] * 2^SqrtShift(x[2]), 0, 2^15),
              (x[2] - SqrtShift(x[2])) \div 2)

\* The sign of the rounded difference is the sign of the difference
FLt(x, y) == FSub(x, y)[1] < 0

FLe(x, y) == FSub(x, y)[1] <= 0

\* min and max that ignore their second argument
FMin_First(x, y) == x

FMax_First(x, y) == x

\* min(x, y) and max(x, y) of Python
FMin(x, y) == IF FLt(y, x) THEN y ELSE x

FMax(x, y) == IF FLt(x, y) THEN y ELSE x

FAbs(x) == <<AbsInt(x[1]), x[2]>>

\* np.add.reduce over s[lo..hi]: pairwise summation, halving the range
RECURSIVE FSumOver(_, _, _)
FSumOver(s, lo, hi) ==
    IF lo > hi THEN F(0)
    ELSE IF lo = hi THEN s[lo]
    ELSE FAdd(FSumOver(s, lo, (lo + hi) \div 2),
              FSumOver(s, (lo + hi) \div 2 + 1, hi))

\* The sum of a list of finite floats
FSum(s) == FSumOver(s, 1, Len(s))

-----------------------------------------------------------------------------
(* Python sequences *)

\* s[-k:] for k >= 0 (s[-0:] is the whole list)
LastK(s, k) ==
    IF k = 0 \/ k >= Len(s) THEN s ELSE SubSeq(s, Len(s) - k + 1, Len(s))

\* s[:-k] for k >= 0 (s[:-0] is the empty list)
DropLastK(s, k) ==
    IF k = 0 \/ k >= Len(s) THEN <<>> ELSE SubSeq(s, 1, Len(s) - k)

\* [p for p in s if np.isfinite(p)]
FiniteOnly(s) == SelectSeq(s, isfinite)

Range(s) == {s[i] : i \in 1..Len(s)}

\* np.max / np.min of a non-empty list of finite floats
FMaxOf(s) == CHOOSE m \in Range(s) : \A x \in Range(s) : FLe(x, m)

FMinOf(s) == CHOOSE m \in Range(s) : \A x \in Range(s) : FLe(m, x)

\* A bounded buffer that refuses the new item when it is full
deque_append_dropnewest(q, cap, x) ==
    IF Len(q) < cap THEN Append(q, x) ELSE q

\* deque(maxlen=cap).append(x): a full deque drops its leftmost item

deque_append(q, cap, x) ==
    IF Len(q) < cap THEN Append(q, x) ELSE Append(Tail(q), x)

-----------------------------------------------------------------------------
(* Statistics *)

\* The minimum number of finite samples of a z-score
ZMinSamples == 20

\* arr.mean()
Mean(arr) == FDiv(FSum(arr), F(Len(arr)))

\* The sum of (arr[i] - mu) ** 2 over arr[lo..hi], pairwise as FSumOver
RECURSIVE SqDevSum(_, _, _, _)
SqDevSum(arr, mu, lo, hi) ==
    IF lo = hi THEN FMul(FSub(arr[lo], mu), FSub(arr[lo], mu))
    ELSE FAdd(SqDevSum(arr, mu, lo, (lo + hi) \div 2),
              SqDevSum(arr, mu, (lo + hi) \div 2 + 1, hi))

\* arr.std(ddof=1) of two or more samples whose mean is mu
Std(arr, mu) == FSqrt(FDiv(SqDevSum(arr, mu, 1, Len(arr)), F(Len(arr) - 1)))

\* "if sd == 0: return nan; return (arr[-1] - mu) / sd"
Score(arr, mu, sd) ==
    IF sd = F(0) THEN NaN ELSE FDiv(FSub(arr[Len(arr)], mu), sd)

zscore_from_list(values) ==
    IF Len(FiniteOnly(values)) < ZMinSamples THEN NaN
    ELSE Score(FiniteOnly(values), Mean(FiniteOnly(values)),
               Std(FiniteOnly(values), Mean(FiniteOnly(values))))

\* abs(z) >= z_th, for a finite z
ZAbsGe(z, z_th) == FLe(z_th, FAbs(z))

\* z > 0, for a finite z
ZPositive(z) == FLt(F(0), z)

\* np.abs(np.diff(w))
AbsDiff(w) == [i \in 1..(Len(w) - 1) |-> FAbs(FSub(w[i + 1], w[i]))]

\* np.mean(np.abs(np.diff(w))) for a list w of two or more finite floats
MeanAbsDiff(w) == FDiv(FSum(AbsDiff(w)), F(Len(w) - 1))

\* The proxy asking for one sample less
atr_proxy_from_prices_OneLess(prices, lookback) ==
    IF Len(FiniteOnly(prices)) < lookback + 1 THEN NaN
    ELSE IF Len(LastK(FiniteOnly(prices), lookback + 1)) - 1 = 0 THEN NaN
    ELSE MeanAbsDiff(LastK(FiniteOnly(prices), lookback + 1))

atr_proxy_from_prices(prices, lookback) ==
    LET arr == FiniteOnly(prices)
    IN  IF Len(arr) < lookback + 2 THEN NaN
        ELSE IF Len(LastK(arr, lookback + 1)) - 1 = 0 THEN NaN
        ELSE MeanAbsDiff(LastK(arr, lookback + 1))

-----------------------------------------------------------------------------
(* Breakout detector *)

\* The samples breakout_signal asks for beyond window + confirm_k
MinExtraSamples == 5

\* The tuple breakout_signal returns; info is the tag of its message
Result(direction, entry, stop, tp, level, info) ==
    [direction |-> direction, entry |-> entry, stop |-> stop, tp |-> tp,
     level |-> level, info |-> info]

NoSignal(info) == Result("None", None, None, None, None, info)

\* A long test that lets a sample at H + buffer pass
long_ok_NotStrict(recent, H, buffer) ==
    \A i \in 1..Len(recent) : FLe(FAdd(H, buffer), recent[i])

\* long_ok / short_ok: all(...) over recent is true of an empty list
long_ok(recent, H, buffer) ==
    \A i \in 1..Len(recent) : FLt(FAdd(H, buffer), recent[i])

short_ok(recent, L, buffer) ==
    \A i \in 1..Len(recent) : FLt(recent[i], FSub(L, buffer))

\* A threshold without the extra samples
MinSamples_NoMargin(window, confirm_k) == window + confirm_k

\* The samples breakout_signal asks for: window + confirm_k + 5
MinSamples(window, confirm_k) == window + confirm_k + MinExtraSamples

\* A choice that looks at short_ok first
Direction_ShortFirst(lng, sht) == IF sht THEN "SHORT" ELSE "LONG"

\* direction = "LONG" if long_ok else "SHORT"
Direction(lng, sht) == IF lng THEN "LONG" ELSE "SHORT"

breakout_signal(prices, window, confirm_k, buffer, atr_lookback, atr_mult_stop, rr_take) ==
    LET series == FiniteOnly(prices)
    IN  IF Len(series) < MinSamples(window, confirm_k)
        THEN NoSignal("insufficient")
        ELSE
        LET base   == DropLastK(series, confirm_k)
            recent == LastK(series, confirm_k)
        IN  IF Len(base) < window THEN NoSignal("base_insufficient")
            ELSE
            LET base_window == LastK(base, window)
                H     == FMaxOf(base_window)
                L     == FMinOf(base_window)
                last  == series[Len(series)]
                atrp  == atr_proxy_from_prices(series, atr_lookback)
                lng   == long_ok(recent, H, buffer)
                sht   == short_ok(recent, L, buffer)
            IN  IF ~(lng \/ sht) THEN NoSignal("not_confirmed")
                ELSE IF Direction(lng, sht) = "LONG"
                THEN LET stop1 == H
                         stop2 == IF isfinite(atrp)
                                  THEN FSub(H, FMul(atr_mult_stop, atrp))
                                  ELSE stop1
                         stop  == FMin(stop1, stop2)
                         R     == FSub(last, stop)
                         tp    == IF FLt(F(0), R)
                                  THEN FAdd(last, FMul(rr_take, R))
                                  ELSE NaN
                     IN  Result("LONG", last, stop, tp, H, "long")
                ELSE LET stop1 == L
                         stop2 == IF isfinite(atrp)
                                  THEN FAdd(L, FMul(atr_mult_stop, atrp))
                                  ELSE stop1
                         stop  == FMax(stop1, stop2)
                         R     == FSub(stop, last)
                         tp    == IF FLt(F(0), R)
                                  THEN FSub(last, FMul(rr_take, R))
                                  ELSE NaN
                     IN  Result("SHORT", last, stop, tp, L, "short")

-----------------------------------------------------------------------------
(* Debouncers *)

\* dict.get(key, 0.0)
TsGet(table, key) == IF key \in DOMAIN table THEN table[key] ELSE 0

\* A write that sets the time of every key of the table
TsPut_Shared(table, key, ts) == [k \in DOMAIN table \cup {key} |-> ts]

\* table[key] = ts
TsPut(table, key, ts) ==
    [k \in DOMAIN table \cup {key} |-> IF k = key THEN ts ELSE table[k]]

\* The body shared by can_emit_signal and should_alert: the value returned
\* and the table left behind, for a call at time now_ts.  First, the body
\* with a strict comparison.
MayEmit_Strict(table, key, now_ts, cooldown) ==
    IF now_ts - TsGet(table, key) > cooldown
    THEN [ret |-> TRUE, table |-> TsPut(table, key, now_ts)]
    ELSE [ret |-> FALSE, table |-> table]

\* The same body without the write of the new time
MayEmit_NoRecord(table, key, now_ts, cooldown) ==
    [ret |-> now_ts - TsGet(table, key) >= cooldown, table |-> table]

\* The same body with the write outside the if
MayEmit_AlwaysRecord(table, key, now_ts, cooldown) ==
    [ret |-> now_ts - TsGet(table, key) >= cooldown, table |-> TsPut(table, key, now_ts)]

MayEmit(table, key, now_ts, cooldown) ==
    LET last_ts == TsGet(table, key)
    IN  IF now_ts - last_ts >= cooldown
        THEN [ret |-> TRUE, table |-> TsPut(table, key, now_ts)]
        ELSE [ret |-> FALSE, table |-> table]

can_emit_signal(table, group_, sym_, dir_, now_ts, cooldown) ==
    MayEmit(table, <<group_, sym_, dir_>>, now_ts, cooldown)

should_alert(table, key, now_ts, cooldown) ==
    MayEmit(table, key, now_ts, cooldown)

-----------------------------------------------------------------------------
(* Contracts, quotes and their parsing *)

Groups == {"2605", "2609"}

Products == {"Y", "P", "OI", "M"}

CONTRACT_GROUPS ==
    [g \in Groups |->
        [p \in Products |->
            CASE p = "Y"  -> "nf_y" \o g
              [] p = "P"  -> "nf_p" \o g
              [] p = "OI" -> "nf_oi" \o g
              [] p = "M"  -> "nf_m" \o g]]

Symbols == {CONTRACT_GROUPS[g][p] : g \in Groups, p \in Products}

SpreadNames == {"Y-P", "OI-Y", "OI-P"}

\* spreads[name] is the price of the first leg minus that of the second
SpreadLegs ==
    [n \in SpreadNames |->
        CASE n = "Y-P"  -> <<"Y", "P">>
          [] n = "OI-Y" -> <<"OI", "Y">>
          [] n = "OI-P" -> <<"OI", "P">>]

\* The numerals a quote field may hold
MaxPrice == 12

Numeral == [i \in 0..MaxPrice |-> ToString(i)]

\* fnum: float(x), NaN for a text that is no number
fnum(x) ==
    IF \E i \in 0..MaxPrice : Numeral[i] = x
    THEN F(CHOOSE i \in 0..MaxPrice : Numeral[i] = x)
    ELSE IF x = "inf" THEN Inf
    ELSE NaN

\* fields[idx] of a Python list, as fnum reads it (NaN past the end)
FieldNum(fields, idx) ==
    IF Len(fields) > idx THEN fnum(fields[idx + 1]) ELSE NaN

\* parse_nf(fields)["last"]: fields[3], else the first finite one of
\* fields[2], fields[1], fields[6], fields[7]
parse_nf_last(fields) ==
    LET last == FieldNum(fields, 3)
        cand == FiniteOnly(<<FieldNum(fields, 2), FieldNum(fields, 1),
                             FieldNum(fields, 6), FieldNum(fields, 7)>>)
    IN  IF isfinite(last) THEN last
        ELSE IF cand # <<>> THEN cand[1]
        ELSE NaN

\* Rows that give a symbol without quote the price 0
Latest_MissingAsZero(symbols_map, raw) ==
    [p \in Products |->
        IF symbols_map[p] \notin DOMAIN raw \/ raw[symbols_map[p]] = <<>> THEN F(0)
        ELSE parse_nf_last(raw[symbols_map[p]])]

\* rows: the latest price of each product of the group, NaN for a symbol
\* that raw lacks or whose payload is empty
Latest(symbols_map, raw) ==
    [p \in Products |->
        LET sym == symbols_map[p]
        IN  IF sym \notin DOMAIN raw \/ raw[sym] = <<>> THEN NaN
            ELSE parse_nf_last(raw[sym])]

\* get_price(prod)
get_price(latest, prod) == IF isfinite(latest[prod]) THEN latest[prod] ELSE NaN

\* spreads: defined only when both legs are finite
Spreads(latest) ==
    [n \in SpreadNames |->
        LET a == get_price(latest, SpreadLegs[n][1])
            b == get_price(latest, SpreadLegs[n][2])
        IN  IF isfinite(a) /\ isfinite(b) THEN FSub(a, b) ELSE NaN]

\* should_fetch
should_fetch(cfg) ==
    IF cfg.pause_fetch THEN FALSE
    ELSE IF cfg.only_trade_time /\ ~cfg.trading_now THEN FALSE
    ELSE TRUE

-----------------------------------------------------------------------------
(* The stores *)

\* deque(maxlen=...) of a price history and of a spread history
PriceCap == 21

SpreadCap == 20

\* "更新单品种价格历史": a finite latest price is appended to the history of
\* its symbol, which is created when the table lacks it.  First, the loop
\* without its np.isfinite test.
UpdatePriceHist_Unfiltered(ph, symbols_map, latest) ==
    [sym \in DOMAIN ph \cup {symbols_map[p] : p \in Products} |->
        IF \E p \in Products : symbols_map[p] = sym
        THEN deque_append(IF sym \in DOMAIN ph THEN ph[sym] ELSE <<>>, PriceCap,
                          latest[CHOOSE p \in Products : symbols_map[p] = sym])
        ELSE ph[sym]]

UpdatePriceHist(ph, symbols_map, latest) ==
    LET hit == {p \in Products : isfinite(latest[p])}
        dom == DOMAIN ph \cup {symbols_map[p] : p \in hit}
    IN  [sym \in dom |->
            LET ps  == {p \in hit : symbols_map[p] = sym}
                old == IF sym \in DOMAIN ph THEN ph[sym] ELSE <<>>
            IN  IF ps = {} THEN old
                ELSE deque_append(old, PriceCap, latest[CHOOSE p \in ps : TRUE])]

\* The loop over spreads without its np.isfinite test
UpdateSpreadHist_Unfiltered(hs, spreads) ==
    [n \in SpreadNames |-> deque_append(hs[n], SpreadCap, spreads[n])]

\* hist_spread[name].append(val) for every finite spread
UpdateSpreadHist(hs, spreads) ==
    [n \in SpreadNames |->
        IF isfinite(spreads[n]) THEN deque_append(hs[n], SpreadCap, spreads[n])
        ELSE hs[n]]

\* price_hist.get(target_sym, deque())
PricesOf(ph, sym) == IF sym \in DOMAIN ph THEN ph[sym] ELSE <<>>

-----------------------------------------------------------------------------
(* One run of the script *)

\* The cooldown should_alert is called with
AlertCooldown == 60

\* One pass of the loop that builds alerts: the entry of a spread whose
\* windowed z-score is finite and at least z_th in absolute value
AlertOf(name, z, z_th) ==
    IF isfinite(z) /\ ZAbsGe(z, z_th)
    THEN <<<<name, IF ZPositive(z) THEN "high" ELSE "low">>>>
    ELSE <<>>

\* alerts, in the script's order, each (name, polarity)
SpreadAlerts(hs, z_win, z_th) ==
    AlertOf("Y-P", zscore_from_list(LastK(hs["Y-P"], z_win)), z_th)
    \o AlertOf("OI-Y", zscore_from_list(LastK(hs["OI-Y"], z_win)), z_th)
    \o AlertOf("OI-P", zscore_from_list(LastK(hs["OI-P"], z_win)), z_th)

\* key = f"{group}-{name}-{direction_txt}"
AlertKey(group, name, direction_txt) ==
    group \o "-" \o name \o "-" \o direction_txt

\* The loop over alerts: should_alert on each key in turn; the table left
\* behind and the keys that got the prominent warning.  A key whose call
\* returns false gets nothing: the if has no else.
RECURSIVE AlertLoop(_, _, _, _)
AlertLoop(table, group, alerts, now_ts) ==
    IF alerts = <<>> THEN [table |-> table, shown |-> {}]
    ELSE LET key  == AlertKey(group, Head(alerts)[1], Head(alerts)[2])
             call == should_alert(table, key, now_ts, AlertCooldown)
             rest == AlertLoop(call.table, group, Tail(alerts), now_ts)
         IN  [table |-> rest.table,
              shown |-> IF call.ret THEN {key} \cup rest.shown ELSE rest.shown]

\* What a run that was stopped, or has not happened, leaves in run
NoRun ==
    [kind |-> "none", group |-> "", latest |-> [p \in Products |-> NaN],
     spreads |-> [n \in SpreadNames |-> NaN], result |-> NoSignal("none"),
     signal |-> "none", signal_key |-> <<>>, cooldown_sec |-> 0,
     alerts |-> <<>>, shown |-> {}, notices |-> {}]

\* "if direction is None: ... else: if can_emit_signal(...)": the debouncer
\* is called only for a signal; ret tells which notice is rendered
SignalCall(table, cfg, res, now_ts) ==
    IF res.direction = "None" THEN [called |-> FALSE, ret |-> FALSE, table |-> table]
    ELSE [called |-> TRUE,
          ret    |-> can_emit_signal(table, cfg.group, CONTRACT_GROUPS[cfg.group][cfg.signal_symbol], res.direction, now_ts, cfg.cooldown_sec).ret,
          table  |-> can_emit_signal(table, cfg.group, CONTRACT_GROUPS[cfg.group][cfg.signal_symbol], res.direction, now_ts, cfg.cooldown_sec).table]

\* "if alerts: for ...: if should_alert(key, cooldown=60): st.warning(...)"
RaiseAlerts(table, group, alerts, now_ts) ==
    [alerts |-> alerts, loop |-> AlertLoop(table, group, alerts, now_ts)]

\* What the spread section renders, each notice with the key it is about:
\* st.warning for each alert should_alert lets through, st.success when the
\* list of alerts is empty
AlertNotices(al) ==
    IF al.alerts = <<>> THEN {<<"success", "">>}
    ELSE {<<"warning", k>> : k \in al.loop.shown}

\* The session state a completed run leaves, and what it rendered: signal
\* tells what the right column shows for the breakout result ("none":
\* st.info, no signal; "prominent": st.warning; "muted": st.info, still
\* valid and cooling), notices what the spread section shows
Outcome(cfg, latest, ph, spreads, res, hs, sig, al) ==
    [st  |-> [price_hist |-> ph, hist_spread |-> hs,
              last_signal_ts |-> sig.table, last_alert_ts |-> al.loop.table],
     run |-> [kind |-> IF should_fetch(cfg) THEN "quotes" ELSE "paused",
              group |-> cfg.group,
              latest |-> latest,
              spreads |-> spreads,
              result |-> res,
              signal |-> IF ~sig.called THEN "none"
                         ELSE IF sig.ret THEN "prominent" ELSE "muted",
              signal_key |-> IF ~sig.called THEN <<>>
                             ELSE <<cfg.group, CONTRACT_GROUPS[cfg.group][cfg.signal_symbol], res.direction>>,
              cooldown_sec |-> cfg.cooldown_sec,
              alerts |-> al.alerts,
              shown |-> al.loop.shown,
              notices |-> AlertNotices(al)]]

\* The two debounced renderings: the breakout notice of the selected
\* product, then the spread alerts
Notify(st, cfg, now_ts, latest, ph, spreads, res, hs) ==
    Outcome(cfg, latest, ph, spreads, res, hs,
            SignalCall(st.last_signal_ts, cfg, res, now_ts),
            RaiseAlerts(st.last_alert_ts, cfg.group,
                        SpreadAlerts(hs, cfg.z_win, cfg.z_th), now_ts))

\* breakout_signal on the updated history of the selected product, and the
\* finite spreads appended to their histories
Evaluate(st, cfg, now_ts, latest, ph, spreads) ==
    Notify(st, cfg, now_ts, latest, ph, spreads,
           breakout_signal(PricesOf(ph, CONTRACT_GROUPS[cfg.group][cfg.signal_symbol]),
                           cfg.win, cfg.confirm_k, cfg.buffer, cfg.atr_lb,
                           cfg.atr_mult_stop, cfg.rr_take),
           UpdateSpreadHist(st.hist_spread, spreads))

\* The script after the rows are parsed: the price histories are updated,
\* the spreads computed
Process(st, cfg, now_ts, latest) ==
    Evaluate(st, cfg, now_ts, latest,
             UpdatePriceHist(st.price_hist, CONTRACT_GROUPS[cfg.group], latest),
             Spreads(latest))

\* The script with the except branch falling through: raw stays empty
RunScript_NoStop(st, cfg, fetch, now_ts) ==
    Process(st, cfg, now_ts,
            Latest(CONTRACT_GROUPS[cfg.group],
                   IF should_fetch(cfg) /\ fetch.ok THEN fetch.raw ELSE <<>>))

\* The script from the fetch on, for the widget values cfg, the outcome
\* fetch of the quote request and the clock value now_ts: the session state
\* it leaves and what it rendered.  st is the session state it starts from.
\* A failed request ends the run (st.error, st.stop); without a request raw
\* stays empty.
RunScript(st, cfg, fetch, now_ts) ==
    IF should_fetch(cfg) /\ ~fetch.ok
    THEN [st |-> st, run |-> [NoRun EXCEPT !.kind = "failed", !.group = cfg.group]]
    ELSE Process(st, cfg, now_ts,
                 Latest(CONTRACT_GROUPS[cfg.group],
                        IF should_fetch(cfg) THEN fetch.raw ELSE <<>>))

\* The session state as one value
State ==
    [price_hist |-> price_hist, hist_spread |-> hist_spread,
     last_signal_ts |-> last_signal_ts, last_alert_ts |-> last_alert_ts]

\* The session state the first run creates, for the group selected then
FirstState(group) ==
    [price_hist |-> [sym \in {CONTRACT_GROUPS[group][p] : p \in Products} |-> <<>>],
     hist_spread |-> [n \in SpreadNames |-> <<>>],
     last_signal_ts |-> <<>>,
     last_alert_ts |-> <<>>]

-----------------------------------------------------------------------------
(* Inputs of a run *)

\* A quote payload: name, open, prev_close, last, high, low
FullPayload(i) ==
    <<"quote", ToString(i), ToString(i), ToString(i), ToString(i), ToString(i)>>

\* A payload whose last field is no number, its prev_close is
ShiftedPayload(i) == <<"quote", "", ToString(i), "">>

\* A payload without any finite number
GarbledPayload == <<"quote", "", "-", "inf">>

\* What the quote source answers for one symbol
CellPayload(cell) ==
    CASE cell[1] = "quote"   -> FullPayload(cell[2])
      [] cell[1] = "shifted" -> ShiftedPayload(cell[2])
      [] cell[1] = "garbled" -> GarbledPayload
      [] cell[1] = "empty"   -> <<>>

\* raw, the answer of fetch_sina_quotes: a symbol whose cell is "absent" is
\* not in it
RawOf(group, cells) ==
    [sym \in {CONTRACT_GROUPS[group][p] :
                 p \in {q \in Products : cells[q][1] # "absent"}} |->
        CellPayload(cells[CHOOSE p \in Products : CONTRACT_GROUPS[group][p] = sym])]

\* The price each product quotes at while nothing moves
BasePrice ==
    [p \in Products |->
        CASE p = "Y" -> 5 [] p = "P" -> 3 [] p = "OI" -> 7 [] p = "M" -> 4]

BaseCells == [p \in Products |-> <<"quote", BasePrice[p]>>]

\* The move of Y that breaks out of a flat range
Jump == 3

\* The widget values of a run; the windows are scaled to the histories
\* the model holds
BaseCfg ==
    [group |-> "2605", only_trade_time |-> TRUE, pause_fetch |-> FALSE,
     trading_now |-> TRUE, signal_symbol |-> "Y", win |-> 2, confirm_k |-> 2,
     buffer |-> F(1), atr_lb |-> 3, atr_mult_stop |-> FDiv(F(1), F(2)),
     rr_take |-> F(2), cooldown_sec |-> 30, z_win |-> 60, z_th |-> F(2)]

\* The quotes of the runs that explore the stores: Y steady, up or missing,
\* P a number or garbled, OI with its price in the usual or in the
\* fallback field, M steady or an empty payload
StoreCells ==
    {[p \in Products |->
        CASE p = "Y"  -> y
          [] p = "P"  -> pc
          [] p = "OI" -> IF pc[1] = "garbled" THEN <<"shifted", BasePrice["OI"]>>
                         ELSE <<"quote", BasePrice["OI"]>>
          [] p = "M"  -> IF y[1] = "absent" THEN <<"empty">>
                         ELSE <<"quote", BasePrice["M"]>>] :
        y \in {<<"quote", BasePrice["Y"]>>, <<"quote", BasePrice["Y"] + Jump>>,
               <<"absent">>},
        pc \in {<<"quote", BasePrice["P"]>>, <<"garbled">>}}

-----------------------------------------------------------------------------
(* The state machine *)

\* The clock at the first run
StartTime == 1000

\* The runs on steady quotes, one second apart, that precede the runs explored
WarmLen == 20

\* The runs explored
MaxTicks == 2

\* The group selected when the session state was created
FirstGroup == CHOOSE g \in Groups : CONTRACT_GROUPS[g]["Y"] \in DOMAIN price_hist

\* The first WarmLen runs get steady quotes of the first group
Warming == ticks < WarmLen

Exploring == WarmLen <= ticks /\ ticks < WarmLen + MaxTicks

\* How the quote request of a run goes
Request(cfg, fetch) ==
    IF ~should_fetch(cfg) THEN "skipped"
    ELSE IF fetch.ok THEN "ok" ELSE "error"

\* The keys a run rendered prominently
Emissions(r) ==
    (IF r.signal = "prominent" THEN {<<"signal", r.signal_key>>} ELSE {})
    \cup {<<"alert", k>> : k \in r.shown}

\* emitted after the keys were rendered at time t: for each key the time of
\* its latest prominent emission and of the one before (-1 when none)
Remember(em, keys, t) ==
    [k \in DOMAIN em \cup keys |->
        IF k \in keys THEN <<t, IF k \in DOMAIN em THEN em[k][1] ELSE -1>>
        ELSE em[k]]

\* spread_group after a run of the group: the group is recorded for every
\* spread the run appended
Taken(sg, r) ==
    [n \in SpreadNames |->
        IF isfinite(r.spreads[n]) THEN deque_append(sg[n], SpreadCap, r.group)
        ELSE sg[n]]

\* Session state, run and history before anything ran
Fresh(group) ==
    /\ price_hist = FirstState(group).price_hist
    /\ hist_spread = FirstState(group).hist_spread
    /\ last_signal_ts = FirstState(group).last_signal_ts
    /\ last_alert_ts = FirstState(group).last_alert_ts
    /\ ticks = 0
    /\ run = NoRun
    /\ request = "none"
    /\ emitted = <<>>
    /\ spread_group = [n \in SpreadNames |-> <<>>]

Init ==
    \E group \in Groups :
        /\ Fresh(group)
        /\ now = StartTime
        /\ fin = <<>>
        /\ fout = <<>>

\* One run of the script, dt seconds after the one before
Tick(cfg, fetch, dt) ==
    \E r \in {RunScript(State, cfg, fetch, now + dt)} :
        /\ price_hist' = r.st.price_hist
        /\ hist_spread' = r.st.hist_spread
        /\ last_signal_ts' = r.st.last_signal_ts
        /\ last_alert_ts' = r.st.last_alert_ts
        /\ now' = now + dt
        /\ ticks' = ticks + 1
        /\ run' = r.run
        /\ request' = Request(cfg, fetch)
        /\ emitted' = Remember(emitted, Emissions(r.run), now + dt)
        /\ spread_group' = Taken(spread_group, r.run)
        /\ UNCHANGED <<fin, fout>>

\* A run on steady quotes while the histories fill
TickSteady ==
    /\ Warming
    /\ Tick([BaseCfg EXCEPT !.group = FirstGroup],
            [ok |-> TRUE, raw |-> RawOf(FirstGroup, BaseCells)], 1)

\* A run that gets quotes
TickQuotes ==
    /\ Exploring
    /\ \E group \in Groups, cells \in StoreCells :
          Tick([BaseCfg EXCEPT !.group = group],
               [ok |-> TRUE, raw |-> RawOf(group, cells)], 1)

\* A run whose quote request raises
TickFetchFails ==
    /\ Exploring
    /\ \E group \in Groups :
          Tick([BaseCfg EXCEPT !.group = group], [ok |-> FALSE, raw |-> <<>>], 1)

\* A run that requests no quotes: paused, or outside the trading session
TickNoFetch ==
    /\ Exploring
    /\ \E group \in Groups, pause \in BOOLEAN :
          Tick([BaseCfg EXCEPT !.group = group, !.pause_fetch = pause,
                               !.trading_now = pause],
               [ok |-> TRUE, raw |-> <<>>], 1)

Next == TickSteady \/ TickQuotes \/ TickFetchFails \/ TickNoFetch

Spec == Init /\ [][Next]_vars

-----------------------------------------------------------------------------
(* The runs under a clock that advances by varying steps *)

\* The runs explored after the histories are filled
ClockTicks == 3

\* The seconds between two runs: none, one, and around the two cooldowns
ClockSteps == {0, 1, 29, 30, 60}

\* The quotes of the k-th of these runs: Y rises by Jump on the first and
\* on the second and stays there, so that a breakout and the spread
\* anomalies are there run after run
RisingCells(k) ==
    [BaseCells EXCEPT !["Y"] = <<"quote", BasePrice["Y"] + (IF k < 2 THEN k ELSE 2) * Jump>>]

\* A run on rising quotes, any of the steps after the one before
TickClock ==
    /\ WarmLen <= ticks /\ ticks < WarmLen + ClockTicks
    /\ \E dt \in ClockSteps :
          Tick([BaseCfg EXCEPT !.group = FirstGroup],
               [ok |-> TRUE, raw |-> RawOf(FirstGroup, RisingCells(ticks - WarmLen + 1))], dt)

NextClock == TickSteady \/ TickClock

SpecClock == Init /\ [][NextClock]_vars

-----------------------------------------------------------------------------
(* Runs without quote request over histories that hold a breakout *)

\* The runs on rising quotes after the histories are filled, a second apart
RiseTicks == 2

\* The runs without request after them
PauseTicks == 3

TickRise ==
    /\ WarmLen <= ticks /\ ticks < WarmLen + RiseTicks
    /\ Tick([BaseCfg EXCEPT !.group = FirstGroup],
            [ok |-> TRUE, raw |-> RawOf(FirstGroup, RisingCells(ticks - WarmLen + 1))], 1)

\* A run with fetching paused, or outside the trading session, any of the
\* steps after the run before
TickPaused ==
    /\ WarmLen + RiseTicks <= ticks /\ ticks < WarmLen + RiseTicks + PauseTicks
    /\ \E pause \in BOOLEAN, dt \in ClockSteps :
          Tick([BaseCfg EXCEPT !.group = FirstGroup, !.pause_fetch = pause,
                               !.trading_now = pause],
               [ok |-> TRUE, raw |-> <<>>], dt)

NextPause == TickSteady \/ TickRise \/ TickPaused

SpecPause == Init /\ [][NextPause]_vars

-----------------------------------------------------------------------------
(* The debouncers called on their own *)

\* The calls made
MaxCalls == 3

Cooldowns == {30, 60}

\* The seconds between two calls, for the cooldown c
Waits(c) == {0, 1, c - 1, c, c + 1}

SignalKeys == {<<"2605", "nf_y2605", d>> : d \in {"LONG", "SHORT"}}

AlertKeys ==
    {AlertKey("2605", "Y-P", d) : d \in {"high", "low"}} \cup {AlertKey("2609", "Y-P", "high")}

InitDebounce ==
    /\ Fresh("2605")
    /\ now \in {0, StartTime}
    /\ fin \in {[cooldown |-> c] : c \in Cooldowns}
    /\ fout = <<>>

\* What a call of a debouncer leaves in fout (with the call before it) and
\* in emitted
Called(name, key, r, t) ==
    /\ now' = t
    /\ ticks' = ticks + 1
    /\ fout' = [debouncer |-> name, key |-> key, at |-> t, cooldown |-> fin.cooldown,
                ret |-> r.ret,
                before |-> IF ticks = 0 THEN <<>>
                           ELSE <<fout.debouncer, fout.key, fout.ret>>]
    /\ emitted' = Remember(emitted, IF r.ret THEN {<<name, key>>} ELSE {}, t)
    /\ UNCHANGED <<price_hist, hist_spread, run, request, spread_group, fin>>

\* can_emit_signal(group_, sym_, dir_) at a later time
CallCanEmit ==
    /\ ticks < MaxCalls
    /\ \E key \in SignalKeys, dt \in Waits(fin.cooldown) :
        \E r \in {can_emit_signal(last_signal_ts, key[1], key[2], key[3], now + dt, fin.cooldown)} :
            /\ last_signal_ts' = r.table
            /\ UNCHANGED last_alert_ts
            /\ Called("signal", key, r, now + dt)

\* should_alert(key, cooldown) at a later time
CallShouldAlert ==
    /\ ticks < MaxCalls
    /\ \E key \in AlertKeys, dt \in Waits(fin.cooldown) :
        \E r \in {should_alert(last_alert_ts, key, now + dt, fin.cooldown)} :
            /\ last_alert_ts' = r.table
            /\ UNCHANGED last_signal_ts
            /\ Called("alert", key, r, now + dt)

NextDebounce == CallCanEmit \/ CallShouldAlert

SpecDebounce == InitDebounce /\ [][NextDebounce]_vars

-----------------------------------------------------------------------------
(* breakout_signal on its own *)

\* n copies of x
Flat(n, x) == [i \in 1..n |-> x]

\* The histories: MinFlat to MaxFlat samples of a flat market, then TailLen
\* samples each of which is missing, lower, level or higher
MinFlat == 5

MaxFlat == 8

TailLen == 3

FlatPrice == F(5)

TailValues == {NaN, F(2), F(5), F(8)}

BreakoutInputs ==
    {[prices |-> Flat(m, FlatPrice) \o tail, window |-> nk[1], confirm_k |-> nk[2],
      buffer |-> b, atr_lookback |-> lb,
      atr_mult_stop |-> FDiv(F(3), F(2)), rr_take |-> F(2)] :
        m \in MinFlat..MaxFlat, tail \in [1..TailLen -> TailValues],
        nk \in {<<2, 2>>, <<3, 2>>, <<2, 3>>}, b \in {FNeg(F(4)), F(0), F(1)},
        lb \in {3, 8}}

\* Histories of neighbouring floats: a flat market at the float below or
\* above the one the last samples move to, no buffer, half the risk as
\* reward
FineInputs ==
    {[prices |-> Flat(m, F(2^Precision + 4 + d)) \o Flat(TailLen, F(2^Precision + 4)),
      window |-> 2, confirm_k |-> TailLen, buffer |-> F(0), atr_lookback |-> 20,
      atr_mult_stop |-> FDiv(F(3), F(2)), rr_take |-> FDiv(F(1), F(2))] :
        m \in MinFlat..MaxFlat, d \in {-2, 2}}

\* Nothing ran; the clock and the session state play no part
Idle ==
    /\ Fresh("2605")
    /\ now = StartTime
    /\ fin = <<>>
    /\ fout = <<>>

EvalBreakout ==
    /\ ticks = 0
    /\ \E inp \in BreakoutInputs \cup FineInputs :
        /\ fin' = inp
        /\ fout' = breakout_signal(inp.prices, inp.window, inp.confirm_k, inp.buffer,
                                   inp.atr_lookback, inp.atr_mult_stop, inp.rr_take)
    /\ ticks' = 1
    /\ UNCHANGED <<price_hist, hist_spread, last_signal_ts, last_alert_ts, now,
                   run, request, emitted, spread_group>>

SpecBreakout == Idle /\ [][EvalBreakout]_vars

-----------------------------------------------------------------------------
(* zscore_from_list and the alert test on its own *)

\* The series: ZMinFlat to ZMaxFlat equal samples, then up to two more
\* samples, each missing, infinite or one of the values
ZMinFlat == 17

ZMaxFlat == 21

\* float("0.1")
Tenth == FDiv(F(1), F(10))

ZValues == {F(2), F(5), Tenth}

ZTails ==
    {<<>>} \cup {<<x>> : x \in ZValues \cup {NaN, Inf}}
           \cup {<<x, y>> : x \in ZValues \cup {NaN, Inf}, y \in ZValues \cup {NaN, Inf}}

ZInputs ==
    {[values |-> Flat(m, x) \o tail, z_th |-> th] :
        m \in ZMinFlat..ZMaxFlat, x \in ZValues, tail \in ZTails, th \in {F(1), F(2)}}

\* The z-score of a series and the alert entry it contributes
EvalZ ==
    /\ ticks = 0
    /\ \E inp \in ZInputs :
        /\ fin' = inp
        /\ \E z \in {zscore_from_list(inp.values)} :
              fout' = [z |-> z, alerts |-> AlertOf("Y-P", z, inp.z_th)]
    /\ ticks' = 1
    /\ UNCHANGED <<price_hist, hist_spread, last_signal_ts, last_alert_ts, now,
                   run, request, emitted, spread_group>>

SpecZ == Idle /\ [][EvalZ]_vars

-----------------------------------------------------------------------------
(* Properties of the stores *)

\* new is old with one more item, the oldest dropped when old was full
FifoNext(old, new, cap) ==
    /\ new # <<>>
    /\ new = Append(IF Len(old) < cap THEN old ELSE Tail(old), new[Len(new)])

\* The products whose latest price the run took for the buffer of sym
AcceptedFor(r, sym) ==
    {p \in Products : CONTRACT_GROUPS[r.group][p] = sym /\ isfinite(r.latest[p])}

\* C1: no price buffer ever holds more than its capacity and no spread
\* buffer more than its; a run that accepts a sample for a buffer leaves
\* the buffer as it was with the sample at its end and, when it was full,
\* without its oldest item and nothing else, and leaves the other buffers
\* alone: a buffer is the most recent accepted samples in arrival order.
C1_CapacityFifo ==
    /\ [](/\ \A sym \in DOMAIN price_hist : Len(price_hist[sym]) <= PriceCap
          /\ \A n \in SpreadNames : Len(hist_spread[n]) <= SpreadCap)
    /\ [][ticks' = ticks + 1 =>
            /\ DOMAIN price_hist \subseteq DOMAIN price_hist'
            /\ \A sym \in DOMAIN price_hist' :
                  IF AcceptedFor(run', sym) # {}
                  THEN /\ FifoNext(PricesOf(price_hist, sym), price_hist'[sym], PriceCap)
                       /\ \A p \in AcceptedFor(run', sym) :
                             price_hist'[sym][Len(price_hist'[sym])] = run'.latest[p]
                  ELSE price_hist'[sym] = PricesOf(price_hist, sym)
            /\ \A n \in SpreadNames :
                  IF isfinite(run'.spreads[n])
                  THEN /\ FifoNext(hist_spread[n], hist_spread'[n], SpreadCap)
                       /\ hist_spread'[n][Len(hist_spread'[n])] = run'.spreads[n]
                  ELSE hist_spread'[n] = hist_spread[n]]_vars

\* A price buffer that is full and whose two newest items are the moved
\* quotes of the runs after the warm-up: more samples were accepted than
\* it holds
C1_FullBufferAppended ==
    /\ ticks = WarmLen + MaxTicks
    /\ \E sym \in DOMAIN price_hist :
          /\ Len(price_hist[sym]) = PriceCap
          /\ price_hist[sym][PriceCap] = F(BasePrice["Y"] + Jump)
          /\ price_hist[sym][PriceCap - 1] = F(BasePrice["Y"] + Jump)
          /\ price_hist[sym][1] = F(BasePrice["Y"])

\* C2: every item of every price and spread buffer is finite; a run leaves
\* the buffer of a product whose latest price is not finite as it was, and
\* puts the finite latest price of every other product at the end of its
\* buffer.
C2_OnlyFiniteStored ==
    /\ [](/\ \A sym \in DOMAIN price_hist :
                \A i \in 1..Len(price_hist[sym]) : isfinite(price_hist[sym][i])
          /\ \A n \in SpreadNames :
                \A i \in 1..Len(hist_spread[n]) : isfinite(hist_spread[n][i]))
    /\ [][ticks' = ticks + 1 =>
            \A p \in Products :
                IF isfinite(run'.latest[p])
                THEN /\ PricesOf(price_hist', CONTRACT_GROUPS[run'.group][p]) # <<>>
                     /\ price_hist'[CONTRACT_GROUPS[run'.group][p]]
                            [Len(price_hist'[CONTRACT_GROUPS[run'.group][p]])] = run'.latest[p]
                     /\ \/ Len(price_hist'[CONTRACT_GROUPS[run'.group][p]])
                              = Len(PricesOf(price_hist, CONTRACT_GROUPS[run'.group][p])) + 1
                        \/ Len(PricesOf(price_hist, CONTRACT_GROUPS[run'.group][p])) = PriceCap
                ELSE PricesOf(price_hist', CONTRACT_GROUPS[run'.group][p])
                        = PricesOf(price_hist, CONTRACT_GROUPS[run'.group][p])]_vars

\* A run that got quotes in which P had no finite price while OI had one:
\* the buffer of OI grew and that of P did not
C2_GarbledQuoteSkipped ==
    /\ request = "ok"
    /\ ~isfinite(run.latest["P"])
    /\ isfinite(run.latest["OI"])
    /\ Len(PricesOf(price_hist, CONTRACT_GROUPS[run.group]["P"])) = WarmLen
    /\ Len(PricesOf(price_hist, CONTRACT_GROUPS[run.group]["OI"])) = WarmLen + 1

\* C3: in every run and for each of Y-P, OI-Y and OI-P: when the latest
\* prices of both legs are finite the buffer of the spread gets exactly one
\* more item, their difference; when either is not, the buffer stays as it
\* was, whatever happens to the other spreads.
C3_SpreadAppendedIffBothFinite ==
    [][ticks' = ticks + 1 =>
        \A n \in SpreadNames :
            IF isfinite(run'.latest[SpreadLegs[n][1]]) /\ isfinite(run'.latest[SpreadLegs[n][2]])
            THEN hist_spread'[n] =
                    Append(IF Len(hist_spread[n]) < SpreadCap THEN hist_spread[n]
                           ELSE Tail(hist_spread[n]),
                           FSub(run'.latest[SpreadLegs[n][1]], run'.latest[SpreadLegs[n][2]]))
            ELSE hist_spread'[n] = hist_spread[n]]_vars

\* A run in which Y had no price: OI-P got its difference while Y-P and
\* OI-Y, still filled with the spreads of the steady quotes, got nothing
C3_OneSpreadAppended ==
    /\ request = "ok"
    /\ ~isfinite(run.latest["Y"])
    /\ isfinite(run.latest["OI"]) /\ isfinite(run.latest["P"])
    /\ ticks = WarmLen + 1
    /\ hist_spread["OI-P"][Len(hist_spread["OI-P"])] = FSub(run.latest["OI"], run.latest["P"])
    /\ hist_spread["Y-P"] = Flat(WarmLen, F(BasePrice["Y"] - BasePrice["P"]))

\* C6: a run whose quote request fails leaves every price buffer, every
\* spread buffer and both cooldown tables as they were and evaluates no
\* breakout and no spread; the run after it that gets quotes goes through
\* the whole script: it evaluates the breakout and stores its finite prices.
C6_FailedFetchWritesNothing ==
    [][ticks' = ticks + 1 =>
        /\ request' = "error" =>
              /\ price_hist' = price_hist
              /\ hist_spread' = hist_spread
              /\ last_signal_ts' = last_signal_ts
              /\ last_alert_ts' = last_alert_ts
              /\ run'.result.info = "none"
              /\ run'.signal = "none"
              /\ run'.alerts = <<>>
              /\ run'.shown = {}
        /\ request = "error" /\ request' = "ok" =>
              /\ run'.result.info # "none"
              /\ \A p \in Products :
                    isfinite(run'.latest[p]) =>
                        /\ FifoNext(PricesOf(price_hist, CONTRACT_GROUPS[run'.group][p]),
                                    price_hist'[CONTRACT_GROUPS[run'.group][p]], PriceCap)
                        /\ price_hist'[CONTRACT_GROUPS[run'.group][p]]
                              [Len(price_hist'[CONTRACT_GROUPS[run'.group][p]])] = run'.latest[p]]_vars

\* A failed run on histories that hold a spread anomaly: evaluated, they
\* would have raised an alert
C6_FailedRunOverAnomaly ==
    /\ request = "error"
    /\ run.alerts = <<>>
    /\ SpreadAlerts(hist_spread, BaseCfg.z_win, BaseCfg.z_th) # <<>>

\* C18: a run appends to a spread buffer only the difference of the latest
\* prices of the two legs in the selected group, and the window a run
\* takes the z-score of a spread from, the last z_win samples of its
\* buffer, holds only samples taken in the group selected in that run.
C18_WindowOfSelectedGroup ==
    /\ [][ticks' = ticks + 1 =>
            \A n \in SpreadNames :
                hist_spread'[n] # hist_spread[n] =>
                    /\ isfinite(run'.latest[SpreadLegs[n][1]])
                    /\ isfinite(run'.latest[SpreadLegs[n][2]])
                    /\ hist_spread'[n][Len(hist_spread'[n])] =
                          FSub(run'.latest[SpreadLegs[n][1]], run'.latest[SpreadLegs[n][2]])
                    /\ spread_group'[n][Len(spread_group'[n])] = run'.group]_vars
    /\ [](run.kind \in {"quotes", "paused"} =>
            \A n \in SpreadNames :
                /\ Len(spread_group[n]) = Len(hist_spread[n])
                /\ \A i \in 1..Len(LastK(spread_group[n], BaseCfg.z_win)) :
                      LastK(spread_group[n], BaseCfg.z_win)[i] = run.group)

\* A run for the group 2609 that raised a spread alert for it from a
\* window in which all samples but the latest were taken in the group 2605
C18_AlertFromOtherGroup ==
    /\ request = "ok"
    /\ run.group = "2609"
    /\ run.alerts # <<>>
    /\ run.alerts[1][1] = "Y-P"
    /\ AlertKey("2609", "Y-P", run.alerts[1][2]) \in run.shown
    /\ spread_group["Y-P"][Len(spread_group["Y-P"])] = "2609"
    /\ \A i \in 1..(Len(spread_group["Y-P"]) - 1) : spread_group["Y-P"][i] = "2605"

\* C19: a run that requests no quotes, paused or outside the trading
\* session with the trading-hours-only option on, leaves every price
\* buffer and every spread buffer exactly as it was: the latest price of
\* every product is missing, every spread undefined, nothing is appended.
C19_NoFetchWritesNoSample ==
    [][(ticks' = ticks + 1 /\ request' = "skipped") =>
        /\ price_hist' = price_hist
        /\ hist_spread' = hist_spread
        /\ \A p \in Products : run'.latest[p] = NaN
        /\ \A n \in SpreadNames : run'.spreads[n] = NaN]_vars

\* A run without request right after the warm-up, for the other group: the
\* buffers hold the samples of the warm-up and no buffer was created
C19_SkippedRunAfterWarmUp ==
    /\ request = "skipped"
    /\ run.kind = "paused"
    /\ ticks = WarmLen + 1
    /\ run.group # FirstGroup
    /\ DOMAIN price_hist = {CONTRACT_GROUPS[FirstGroup][p] : p \in Products}
    /\ price_hist[CONTRACT_GROUPS[FirstGroup]["Y"]] = Flat(WarmLen, F(BasePrice["Y"]))
    /\ hist_spread["OI-P"] = Flat(WarmLen, F(BasePrice["OI"] - BasePrice["P"]))

\* C20: a run that requests no quotes renders no breakout signal
\* prominently and no spread alert and leaves both cooldown tables as they
\* were, whatever the stored histories hold.
C20_NoEmissionWithoutQuotes ==
    [][(ticks' = ticks + 1 /\ request' = "skipped") =>
        /\ run'.signal # "prominent"
        /\ run'.shown = {}
        /\ last_signal_ts' = last_signal_ts
        /\ last_alert_ts' = last_alert_ts]_vars

\* A run without request, over histories that still hold the breakout and
\* the spread anomalies of the last quotes, that rendered the signal and an
\* alert prominently and wrote the time into both tables
C20_EmittedWithoutQuotes ==
    /\ request = "skipped"
    /\ \A p \in Products : run.latest[p] = NaN
    /\ run.result.direction = "LONG"
    /\ run.signal = "prominent"
    /\ last_signal_ts[run.signal_key] = now
    /\ run.shown # {}
    /\ \A k \in run.shown : last_alert_ts[k] = now

-----------------------------------------------------------------------------
(* Properties of the debouncers *)

\* C4: for either debouncer, a key and a cooldown c: a call made after a
\* call at t1 returned true, and before any later true, returns true exactly
\* when its time is t1 + c or later; so calls in the window return false
\* and the first call with c or more elapsed (exactly c included) returns
\* true again.
C4_CooldownWindow ==
    [][ticks' = ticks + 1 =>
        (<<fout'.debouncer, fout'.key>> \in DOMAIN emitted =>
            (fout'.ret <=>
                fout'.at - emitted[<<fout'.debouncer, fout'.key>>][1] >= fout'.cooldown))]_vars

\* Three calls for one key that returned true, false and, exactly the
\* cooldown after the first, true
C4_TrueFalseTrue ==
    /\ ticks = 3
    /\ fout.ret
    /\ fout.before = <<fout.debouncer, fout.key, FALSE>>
    /\ emitted[<<fout.debouncer, fout.key>>] = <<fout.at, fout.at - fout.cooldown>>

\* C5: in the runs under a clock that never goes back, a key rendered
\* prominently was last rendered prominently at least a cooldown before:
\* 60 seconds for a spread alert, the cooldown_sec of the run for a breakout
\* signal; and an alert shown by a run is not shown by a run one second
\* later.
C5_EmissionsCooldownApart ==
    [][ticks' = ticks + 1 =>
        /\ now' >= now
        /\ \A k \in run'.shown :
              <<"alert", k>> \in DOMAIN emitted => now' - emitted[<<"alert", k>>][1] >= 60
        /\ (run'.signal = "prominent" /\ <<"signal", run'.signal_key>> \in DOMAIN emitted) =>
              now' - emitted[<<"signal", run'.signal_key>>][1] >= run'.cooldown_sec
        /\ now' = now + 1 => run'.shown \cap run.shown = {}]_vars

\* A run that renders a breakout signal prominently exactly cooldown_sec
\* after it did before, while the alerts of the spread anomalies, shown 59
\* seconds earlier and still raised, stay quiet
C5_SignalAgainAlertsQuiet ==
    /\ run.signal = "prominent"
    /\ emitted[<<"signal", run.signal_key>>] = <<now, now - run.cooldown_sec>>
    /\ run.alerts # <<>>
    /\ run.shown = {}
    /\ \A i \in 1..Len(run.alerts) :
          emitted[<<"alert", AlertKey(run.group, run.alerts[i][1], run.alerts[i][2])>>][1] = now - 59

\* C11: a call of the breakout debouncer leaves the spread table as it was
\* and with it the result the spread debouncer would give for any of its
\* keys, and the reverse; within the table of the call, the result a call
\* for any other key (the other direction of the instrument, the other
\* polarity of the spread, the spread in the other group) would give is the
\* same after the call as before it.
C11_IndependentKeys ==
    [][ticks' = ticks + 1 =>
        /\ fout'.debouncer = "signal" =>
              /\ last_alert_ts' = last_alert_ts
              /\ \A k \in AlertKeys :
                    should_alert(last_alert_ts', k, now', AlertCooldown).ret
                        = should_alert(last_alert_ts, k, now', AlertCooldown).ret
              /\ \A k \in SignalKeys \ {fout'.key} :
                    can_emit_signal(last_signal_ts', k[1], k[2], k[3], now', fout'.cooldown).ret
                        = can_emit_signal(last_signal_ts, k[1], k[2], k[3], now', fout'.cooldown).ret
        /\ fout'.debouncer = "alert" =>
              /\ last_signal_ts' = last_signal_ts
              /\ \A k \in SignalKeys :
                    can_emit_signal(last_signal_ts', k[1], k[2], k[3], now', fout'.cooldown).ret
                        = can_emit_signal(last_signal_ts, k[1], k[2], k[3], now', fout'.cooldown).ret
              /\ \A k \in AlertKeys \ {fout'.key} :
                    should_alert(last_alert_ts', k, now', fout'.cooldown).ret
                        = should_alert(last_alert_ts, k, now', fout'.cooldown).ret]_vars

\* Three calls in one second that all returned true: two for different
\* keys of one table and one for a key of the other table
C11_ThreeKeysSameSecond ==
    /\ ticks = 3
    /\ fout.ret
    /\ \E k1, k2 \in DOMAIN emitted :
          /\ k1[1] = fout.debouncer /\ k1[2] # fout.key
          /\ k2[1] # fout.debouncer
          /\ emitted[k1][1] = fout.at
          /\ emitted[k2][1] = fout.at

\* C12: a run in which breakout_signal returned a signal renders a warning
\* or a still-valid notice for it, and a run in which a spread has a finite
\* z-score of at least the threshold in absolute value renders a warning or
\* a still-active notice for that spread and polarity: no signal that is
\* there goes unrendered.
C12_PresentSignalRendered ==
    /\ run.result.direction # "None" => run.signal \in {"prominent", "muted"}
    /\ \A i \in 1..Len(run.alerts) :
          \E n \in run.notices :
              /\ n[1] \in {"warning", "info"}
              /\ n[2] = AlertKey(run.group, run.alerts[i][1], run.alerts[i][2])

\* A run that rendered the still-valid notice of a breakout signal held
\* back by its cooldown and nothing for a spread anomaly held back by its
\* own
C12_AnomalyUnrendered ==
    /\ run.result.direction # "None"
    /\ run.signal = "muted"
    /\ \E i \in 1..Len(run.alerts) :
          \A n \in run.notices :
              n[2] # AlertKey(run.group, run.alerts[i][1], run.alerts[i][2])

\* C13: a call of either debouncer for a key its table has no entry for
\* returns true and leaves the time of the call as the entry of the key,
\* at any clock value and for any cooldown.
C13_UnarmedEmits ==
    [][ticks' = ticks + 1 =>
        /\ (fout'.debouncer = "signal" /\ fout'.key \notin DOMAIN last_signal_ts) =>
              /\ fout'.ret
              /\ fout'.key \in DOMAIN last_signal_ts'
              /\ last_signal_ts'[fout'.key] = now'
        /\ (fout'.debouncer = "alert" /\ fout'.key \notin DOMAIN last_alert_ts) =>
              /\ fout'.ret
              /\ fout'.key \in DOMAIN last_alert_ts'
              /\ last_alert_ts'[fout'.key] = now']_vars

\* A call for a key without entry that returned false: the clock is less
\* than a cooldown after 0, the time the tables default to
C13_UnarmedRefused ==
    /\ ticks >= 1
    /\ ~fout.ret
    /\ fout.at < fout.cooldown
    /\ fout.debouncer = "signal" => fout.key \notin DOMAIN last_signal_ts
    /\ fout.debouncer = "alert" => fout.key \notin DOMAIN last_alert_ts

\* C14: a call that returns false leaves both tables as they were; a call
\* that returns true leaves the other table as it was and, in its own, sets
\* the entry of its key to the time of the call and changes no other entry;
\* no call removes an entry, and under a clock that does not go back no
\* entry gets an earlier time.
C14_TableFrame ==
    [][ticks' = ticks + 1 =>
        /\ ~fout'.ret => last_signal_ts' = last_signal_ts /\ last_alert_ts' = last_alert_ts
        /\ (fout'.ret /\ fout'.debouncer = "signal") =>
              /\ last_alert_ts' = last_alert_ts
              /\ DOMAIN last_signal_ts' = DOMAIN last_signal_ts \cup {fout'.key}
              /\ last_signal_ts'[fout'.key] = now'
              /\ \A k \in DOMAIN last_signal_ts \ {fout'.key} :
                    last_signal_ts'[k] = last_signal_ts[k]
        /\ (fout'.ret /\ fout'.debouncer = "alert") =>
              /\ last_signal_ts' = last_signal_ts
              /\ DOMAIN last_alert_ts' = DOMAIN last_alert_ts \cup {fout'.key}
              /\ last_alert_ts'[fout'.key] = now'
              /\ \A k \in DOMAIN last_alert_ts \ {fout'.key} :
                    last_alert_ts'[k] = last_alert_ts[k]
        /\ DOMAIN last_signal_ts \subseteq DOMAIN last_signal_ts'
        /\ DOMAIN last_alert_ts \subseteq DOMAIN last_alert_ts'
        /\ now' >= now =>
              /\ \A k \in DOMAIN last_signal_ts : last_signal_ts'[k] >= last_signal_ts[k]
              /\ \A k \in DOMAIN last_alert_ts : last_alert_ts'[k] >= last_alert_ts[k]]_vars

\* A third call that returned true and replaced the earlier time of its
\* key while the entry of another key of the table kept its own earlier
\* time
C14_OwnEntryReplaced ==
    /\ ticks = 3
    /\ fout.ret
    /\ emitted[<<fout.debouncer, fout.key>>][2] >= 0
    /\ emitted[<<fout.debouncer, fout.key>>][2] < fout.at
    /\ \E e \in DOMAIN emitted :
          /\ e[1] = fout.debouncer
          /\ e[2] # fout.key
          /\ emitted[e][1] < fout.at
          /\ emitted[e][1] > emitted[<<fout.debouncer, fout.key>>][2]

-----------------------------------------------------------------------------
(* Properties of breakout_signal *)

\* The finite samples of a history, in order
Finite(s) == SelectSeq(s, LAMBDA x : Len(x) = 2)

\* The N samples before the last K of xs
RefWindow(xs, N, K) == SubSeq(xs, Len(xs) - K - N + 1, Len(xs) - K)

\* H and L_low: the largest and the smallest sample of the window
RefHigh(xs, N, K) ==
    CHOOSE h \in Range(RefWindow(xs, N, K)) :
        \A x \in Range(RefWindow(xs, N, K)) : ~FLt(h, x)

RefLow(xs, N, K) ==
    CHOOSE l \in Range(RefWindow(xs, N, K)) :
        \A x \in Range(RefWindow(xs, N, K)) : ~FLt(x, l)

\* Each of the last K samples is above H + B, below L_low - B
LongCondition(xs, N, K, B) ==
    \A i \in (Len(xs) - K + 1)..Len(xs) : FLt(FAdd(RefHigh(xs, N, K), B), xs[i])

ShortCondition(xs, N, K, B) ==
    \A i \in (Len(xs) - K + 1)..Len(xs) : FLt(xs[i], FSub(RefLow(xs, N, K), B))

\* The input has the N + K + 5 finite samples
Enough(inp) == Len(Finite(inp.prices)) >= inp.window + inp.confirm_k + 5

\* C7: with fewer than N + K + 5 finite samples the result has no direction
\* and the insufficient-sample reason; with that many it never has that
\* reason, a result without direction has the not-confirmed reason, and the
\* not-confirmed reason is returned exactly when neither the long nor the
\* short condition holds.
C7_InsufficientVersusNotConfirmed ==
    ticks = 1 =>
        IF ~Enough(fin)
        THEN fout.direction = "None" /\ fout.info = "insufficient"
        ELSE /\ fout.info # "insufficient"
             /\ fout.direction = "None" => fout.info = "not_confirmed"
             /\ fout.info = "not_confirmed" <=>
                   /\ ~LongCondition(Finite(fin.prices), fin.window, fin.confirm_k, fin.buffer)
                   /\ ~ShortCondition(Finite(fin.prices), fin.window, fin.confirm_k, fin.buffer)

\* A history whose values break out but which has one finite sample too
\* few, a missing one not counting: insufficient
C7_OneSampleShort ==
    /\ ticks = 1
    /\ Len(fin.prices) >= fin.window + fin.confirm_k + 5
    /\ Len(Finite(fin.prices)) = fin.window + fin.confirm_k + 4
    /\ \A i \in (Len(fin.prices) - fin.confirm_k + 1)..Len(fin.prices) :
          fin.prices[i] = F(8)
    /\ fout.info = "insufficient"

\* min(H, H - M * atrp) and max(L, L + M * atrp) as Python computes them,
\* for an atrp that may be nan
MinStop(H, M, atrp) ==
    IF isfinite(atrp) /\ FLt(FSub(H, FMul(M, atrp)), H) THEN FSub(H, FMul(M, atrp)) ELSE H

MaxStop(L, M, atrp) ==
    IF isfinite(atrp) /\ FLt(L, FAdd(L, FMul(M, atrp))) THEN FAdd(L, FMul(M, atrp)) ELSE L

\* The latest finite sample
Latest_(inp) == Finite(inp.prices)[Len(Finite(inp.prices))]

\* C8: with N + K + 5 or more finite samples of which each of the last K
\* is above H + B, H the largest of the N samples before the last K, the
\* result is LONG, its entry the latest sample, its level H, its stop
\* min(H, H - M * atrp), which is at most H, and its target
\* entry + R * (entry - stop) when entry - stop > 0, undefined otherwise.
C8_LongResult ==
    (/\ ticks = 1
     /\ Enough(fin)
     /\ LongCondition(Finite(fin.prices), fin.window, fin.confirm_k, fin.buffer)) =>
        /\ fout.direction = "LONG"
        /\ fout.entry = Latest_(fin)
        /\ fout.level = RefHigh(Finite(fin.prices), fin.window, fin.confirm_k)
        /\ fout.stop = MinStop(fout.level, fin.atr_mult_stop,
                               atr_proxy_from_prices(fin.prices, fin.atr_lookback))
        /\ FLe(fout.stop, fout.level)
        /\ IF FLt(F(0), FSub(fout.entry, fout.stop))
           THEN fout.tp = FAdd(fout.entry, FMul(fin.rr_take, FSub(fout.entry, fout.stop)))
           ELSE ~isfinite(fout.tp)

\* A LONG result whose stop is below H by the volatility proxy
C8_LongWithWiderStop ==
    /\ ticks = 1
    /\ fout.direction = "LONG"
    /\ FLt(fout.stop, fout.level)
    /\ FLt(fout.level, fout.entry)
    /\ isfinite(fout.tp)

\* C9: with N + K + 5 or more finite samples, the long condition not
\* holding and each of the last K below L_low - B, L_low the smallest of
\* the N samples before the last K, the result is SHORT, its entry the
\* latest sample, its level L_low, its stop max(L_low, L_low + M * atrp),
\* which is at least L_low, and its target entry - R * (stop - entry) when
\* stop - entry > 0, undefined otherwise.
C9_ShortResult ==
    (/\ ticks = 1
     /\ Enough(fin)
     /\ ~LongCondition(Finite(fin.prices), fin.window, fin.confirm_k, fin.buffer)
     /\ ShortCondition(Finite(fin.prices), fin.window, fin.confirm_k, fin.buffer)) =>
        /\ fout.direction = "SHORT"
        /\ fout.entry = Latest_(fin)
        /\ fout.level = RefLow(Finite(fin.prices), fin.window, fin.confirm_k)
        /\ fout.stop = MaxStop(fout.level, fin.atr_mult_stop,
                               atr_proxy_from_prices(fin.prices, fin.atr_lookback))
        /\ FLe(fout.level, fout.stop)
        /\ IF FLt(F(0), FSub(fout.stop, fout.entry))
           THEN fout.tp = FSub(fout.entry, FMul(fin.rr_take, FSub(fout.stop, fout.entry)))
           ELSE ~isfinite(fout.tp)

\* A SHORT result whose stop is above L_low by the volatility proxy
C9_ShortWithWiderStop ==
    /\ ticks = 1
    /\ fout.direction = "SHORT"
    /\ FLt(fout.level, fout.stop)
    /\ FLt(fout.entry, fout.level)
    /\ isfinite(fout.tp)

-----------------------------------------------------------------------------
(* Properties of zscore_from_list *)

\* C10: the score is defined exactly when the series has 20 or more finite
\* samples that are not all equal; otherwise it is nan, and the spread
\* raises no alert.
C10_ScoreDefinedIff ==
    ticks = 1 =>
        /\ isfinite(fout.z) <=>
              /\ Len(Finite(fin.values)) >= 20
              /\ \E i, j \in 1..Len(Finite(fin.values)) :
                    Finite(fin.values)[i] # Finite(fin.values)[j]
        /\ ~isfinite(fout.z) => fout.z = NaN /\ fout.alerts = <<>>

\* A series of 20 or more finite samples, all equal, with a finite score
C10_ConstantSeriesScored ==
    /\ ticks = 1
    /\ Len(Finite(fin.values)) >= 20
    /\ \A i, j \in 1..Len(Finite(fin.values)) :
          Finite(fin.values)[i] = Finite(fin.values)[j]
    /\ isfinite(fout.z)

\* C15: whenever each of the last K samples is above H + B the result is
\* LONG, also when each of them is below L_low - B as well; and with B >= 0
\* the two conditions never hold together, H being at least L_low.
C15_LongFirst ==
    (ticks = 1 /\ Enough(fin)) =>
        /\ LongCondition(Finite(fin.prices), fin.window, fin.confirm_k, fin.buffer) =>
              fout.direction = "LONG"
        /\ FLe(RefLow(Finite(fin.prices), fin.window, fin.confirm_k),
               RefHigh(Finite(fin.prices), fin.window, fin.confirm_k))
        /\ FLe(F(0), fin.buffer) =>
              ~(/\ LongCondition(Finite(fin.prices), fin.window, fin.confirm_k, fin.buffer)
                /\ ShortCondition(Finite(fin.prices), fin.window, fin.confirm_k, fin.buffer))

\* A negative buffer under which both conditions hold, samples above and
\* below the range among the last K: the result is LONG
C15_BothHoldLong ==
    /\ ticks = 1
    /\ Enough(fin)
    /\ LongCondition(Finite(fin.prices), fin.window, fin.confirm_k, fin.buffer)
    /\ ShortCondition(Finite(fin.prices), fin.window, fin.confirm_k, fin.buffer)
    /\ fin.prices[Len(fin.prices)] = F(2)
    /\ fin.prices[Len(fin.prices) - 1] = F(8)
    /\ fout.direction = "LONG"
    /\ fout.level = FlatPrice

\* C16: the volatility proxy of a history for the lookback L is nan when
\* the history has fewer than L + 2 finite samples and a finite number when
\* it has L + 2 or more; a signal returned while the proxy is nan has the
\* raw level as its stop, H for LONG and L_low for SHORT, and its target
\* computed from that stop: entry plus or minus R times the risk when the
\* risk is positive, nan otherwise.
C16_ProxyFallback ==
    ticks = 1 =>
        /\ IF Len(Finite(fin.prices)) < fin.atr_lookback + 2
           THEN atr_proxy_from_prices(fin.prices, fin.atr_lookback) = NaN
           ELSE isfinite(atr_proxy_from_prices(fin.prices, fin.atr_lookback))
        /\ (fout.direction = "LONG" /\ Len(Finite(fin.prices)) < fin.atr_lookback + 2) =>
              /\ fout.stop = RefHigh(Finite(fin.prices), fin.window, fin.confirm_k)
              /\ IF FLt(F(0), FSub(fout.entry, fout.stop))
                 THEN fout.tp = FAdd(fout.entry, FMul(fin.rr_take, FSub(fout.entry, fout.stop)))
                 ELSE fout.tp = NaN
        /\ (fout.direction = "SHORT" /\ Len(Finite(fin.prices)) < fin.atr_lookback + 2) =>
              /\ fout.stop = RefLow(Finite(fin.prices), fin.window, fin.confirm_k)
              /\ IF FLt(F(0), FSub(fout.stop, fout.entry))
                 THEN fout.tp = FSub(fout.entry, FMul(fin.rr_take, FSub(fout.stop, fout.entry)))
                 ELSE fout.tp = NaN

\* A SHORT signal on a history one finite sample short of L + 2, with
\* L > N + K + 3: its stop is L_low and its target is defined
C16_SignalWithoutProxy ==
    /\ ticks = 1
    /\ fout.direction = "SHORT"
    /\ fin.atr_lookback > fin.window + fin.confirm_k + 3
    /\ Len(Finite(fin.prices)) = fin.atr_lookback + 1
    /\ fout.stop = fout.level
    /\ fout.stop = FlatPrice
    /\ isfinite(fout.tp)

\* C17, as claimed: a signal returned for B >= 0 and M >= 0 has its stop at
\* or beyond the level and the level strictly beyond the entry, a positive
\* risk and a target that is a number, strictly above the entry for LONG
\* and strictly below it for SHORT.
C17_TargetBeyondEntry ==
    (ticks = 1 /\ FLe(F(0), fin.buffer) /\ FLe(F(0), fin.atr_mult_stop)) =>
        /\ fout.direction = "LONG" =>
              /\ FLe(fout.stop, fout.level) /\ FLt(fout.level, fout.entry)
              /\ FLt(F(0), FSub(fout.entry, fout.stop))
              /\ isfinite(fout.tp) /\ FLt(fout.entry, fout.tp)
        /\ fout.direction = "SHORT" =>
              /\ FLe(fout.level, fout.stop) /\ FLt(fout.entry, fout.level)
              /\ FLt(F(0), FSub(fout.stop, fout.entry))
              /\ isfinite(fout.tp) /\ FLt(fout.tp, fout.entry)

\* C17, amended: a signal returned for B >= 0 and M >= 0 has its stop at or
\* beyond the level and the level strictly beyond the entry, a positive
\* risk and a target that is a number, never on the losing side of the
\* entry: at or above it for LONG, at or below it for SHORT (at it when
\* R times the risk is lost in the rounding of the sum).
C17_TargetNotBehindEntry ==
    (ticks = 1 /\ FLe(F(0), fin.buffer) /\ FLe(F(0), fin.atr_mult_stop)) =>
        /\ fout.direction = "LONG" =>
              /\ FLe(fout.stop, fout.level) /\ FLt(fout.level, fout.entry)
              /\ FLt(F(0), FSub(fout.entry, fout.stop))
              /\ isfinite(fout.tp) /\ FLe(fout.entry, fout.tp)
        /\ fout.direction = "SHORT" =>
              /\ FLe(fout.level, fout.stop) /\ FLt(fout.entry, fout.level)
              /\ FLt(F(0), FSub(fout.stop, fout.entry))
              /\ isfinite(fout.tp) /\ FLe(fout.tp, fout.entry)

\* A LONG signal with a positive risk whose target is the entry itself
C17_TargetAtEntry ==
    /\ ticks = 1
    /\ FLe(F(0), fin.buffer)
    /\ fout.direction = "LONG"
    /\ FLt(F(0), FSub(fout.entry, fout.stop))
    /\ fout.tp = fout.entry

====
